---------------------------- MODULE Spec2Model ----------------------------
(***************************************************************************)
(* A model of mini-kuber (src/mini-kuber.js): the resource builders, their *)
(* toYAML documents, the derived builders (serviceFor, autoscaleFor,       *)
(* webApp, database) and deploy, the submission function that prints the   *)
(* documents (dry run) or writes them to a transient file, runs            *)
(* `kubectl apply -f` on it and removes the file; and of the microservices *)
(* example (src/unnamed/part_000): the MicroserviceArchitecture class, its *)
(* create methods, deployWithStaging and waitForServices.                  *)
(*                                                                         *)
(* JavaScript values are modelled as follows.                              *)
(*   - an object is a function from property names to values; a property   *)
(*     that is absent reads as undefined;                                  *)
(*   - a value that may be undefined is a sequence of length at most one:  *)
(*     << >> is undefined and <<v>> is v;                                  *)
(*   - an argument that may be a string or an object carries its typeof:  *)
(*     [typeof |-> "string", value |-> s] or [typeof |-> "object", ...];   *)
(*   - a secret's string value is the sequence of its Unicode code points, *)
(*     a Buffer is a sequence of bytes, and a base64 text is a sequence of *)
(*     base64 digits (0..63) and pads (64).                                *)
(***************************************************************************)
EXTENDS Integers, Sequences, FiniteSets, TLC

VARIABLES
    call,       \* builders: the builder call made, [fn |-> ..., ...arguments]
    ret,        \* builders: the resources that call returned, in order
    doc,        \* builders: << >>, or <<i, d>>: d is what ret[i].toYAML() returned
    clock,      \* deploy: Date.now(), in milliseconds
    files,      \* deploy: the files of os.tmpdir(): path |-> content
    pc,         \* deploy: where each process is in its call of deploy
    required,   \* deploy: what require('js-yaml') did: "no" (not called),
                \*         "resolved" or "missing" (it threw)
    args,       \* deploy: the arguments of each process's call
    allYAML,    \* deploy: the documents collected by the loop
    log,        \* deploy: the lines each process printed (console.log)
    tempFile,   \* deploy: << >> or <<path>>, the call's transient file
    completion, \* deploy: how the inner try block completed, before finally
    outcome,    \* deploy: how the call ended: returned a value or threw
    effects,    \* deploy: the file system and child process calls made
    arch,       \* staging: the MicroserviceArchitecture object
    made,       \* staging: the create methods called on it so far
    staging,    \* staging: the call of deployWithStaging
    wait        \* staging: the call of waitForServices

bvars == <<call, ret, doc>>
dvars == <<clock, files, pc, required, args, allYAML, log, tempFile,
           completion, outcome, effects>>
svars == <<arch, made, staging, wait>>
vars  == <<call, ret, doc, clock, files, pc, required, args, allYAML, log,
           tempFile, completion, outcome, effects, arch, made, staging, wait>>

(***************************************************************************)
(* JavaScript helpers                                                      *)
(***************************************************************************)
EmptyObj == [k \in {} |-> k]

undefined == << >>

\* o.k : the property's value, or undefined
Get(o, k) == IF k \in DOMAIN o THEN <<o[k]>> ELSE undefined

\* { k: m } where a property holding undefined reads like an absent one
Prop(k, m) == IF m = undefined THEN EmptyObj ELSE (k :> m[1])

\* truthiness of a number-or-undefined and of a string-or-undefined
TruthyNum(m) == m # undefined /\ m[1] # 0
TruthyStr(m) == m # undefined /\ m[1] # ""

\* m || d, for numbers and for strings, d a defined value
OrNum(m, d) == IF TruthyNum(m) THEN m[1] ELSE d
OrStr(m, d) == IF TruthyStr(m) THEN m[1] ELSE d

\* a string argument and an object argument, for a parameter that takes both
Str(s) == [typeof |-> "string", value |-> s]
Obj(o) == [typeof |-> "object", value |-> o]

\* String(value) of a value that is a string already
String(v) == v

(***************************************************************************)
(* class Resource and the six builders                                     *)
(***************************************************************************)
ResourceNamespaceMutant(kind, name, namespace) ==
    [ kind        |-> kind,
      name        |-> name,
      namespace   |-> "default",
      labels      |-> ("app" :> name) @@ ("managed-by" :> "mini-kuber"),
      annotations |-> EmptyObj ]

Resource(kind, name, namespace) ==
    [ kind        |-> kind,
      name        |-> name,
      namespace   |-> namespace,
      labels      |-> ("app" :> name) @@ ("managed-by" :> "mini-kuber"),
      annotations |-> EmptyObj ]

\* options.replicas || 1 (the Deployment and StatefulSet constructors)
Replicas(options) == OrNum(Get(options, "replicas"), 1)

\* options.env || {} : the entries of the mapping, in insertion order
Env(options) == IF "env" \in DOMAIN options THEN options.env ELSE << >>

Deployment(name, options) ==
    LET base == Resource("Deployment", name,
                         OrStr(Get(options, "namespace"), "default"))
        own  == [ image         |-> <<OrStr(Get(options, "image"), "nginx:latest")>>,
                  replicas      |-> Replicas(options),
                  port          |-> Get(options, "port"),
                  env           |-> Env(options),
                  cpuRequest    |-> OrStr(Get(options, "cpuRequest"), "100m"),
                  memoryRequest |-> OrStr(Get(options, "memoryRequest"), "128Mi"),
                  cpuLimit      |-> OrStr(Get(options, "cpuLimit"), "500m"),
                  memoryLimit   |-> OrStr(Get(options, "memoryLimit"), "512Mi") ]
        healed == IF Get(options, "autoHeal") # <<FALSE>>
                  THEN [base EXCEPT !.labels = ("auto-heal" :> "true") @@ @]
                  ELSE base
    IN  own @@ healed

\* typeof target === 'string' ? target : target.name
TargetName(target) ==
    IF target.typeof = "string" THEN target.value ELSE target.value.name

\* target.port : undefined on a string, the workload's port on an object
TargetPort(target) ==
    IF target.typeof = "object" /\ "port" \in DOMAIN target.value
    THEN target.value.port ELSE undefined

ServiceOwnPortMutant(name, target, options) ==
    LET port == OrNum(Get(options, "port"), 80)
    IN  [ target     |-> TargetName(target),
          port       |-> port,
          targetPort |-> OrNum(Get(options, "targetPort"), port),
          type       |-> OrStr(Get(options, "type"), "ClusterIP") ]
        @@ Resource("Service", name, OrStr(Get(options, "namespace"), "default"))

Service(name, target, options) ==
    LET port == OrNum(Get(options, "port"), 80)
    IN  [ target     |-> TargetName(target),
          port       |-> port,
          targetPort |-> OrNum(Get(options, "targetPort"),
                               OrNum(TargetPort(target), port)),
          type       |-> OrStr(Get(options, "type"), "ClusterIP") ]
        @@ Resource("Service", name, OrStr(Get(options, "namespace"), "default"))

StatefulSet(name, options) ==
    [ image        |-> Get(options, "image"),
      replicas     |-> Replicas(options),
      port         |-> Get(options, "port"),
      storage      |-> OrStr(Get(options, "storage"), "10Gi"),
      storageClass |-> OrStr(Get(options, "storageClass"), "standard"),
      env          |-> Env(options) ]
    @@ Resource("StatefulSet", name, OrStr(Get(options, "namespace"), "default"))

ConfigMap(name, data, options) ==
    [ data |-> data ]
    @@ Resource("ConfigMap", name, OrStr(Get(options, "namespace"), "default"))

Secret(name, data, options) ==
    [ data |-> data,
      type |-> OrStr(Get(options, "type"), "Opaque") ]
    @@ Resource("Secret", name, OrStr(Get(options, "namespace"), "default"))

HorizontalPodAutoscaler(name, target, options) ==
    [ target      |-> TargetName(target),
      minReplicas |-> OrNum(Get(options, "minReplicas"), 1),
      maxReplicas |-> OrNum(Get(options, "maxReplicas"), 10),
      cpuPercent  |-> OrNum(Get(options, "cpuPercent"), 80) ]
    @@ Resource("HorizontalPodAutoscaler", name,
                OrStr(Get(options, "namespace"), "default"))

(***************************************************************************)
(* toYAML: the document of each resource kind                              *)
(***************************************************************************)
\* Object.entries(this.env).map(([name, value]) => ({name, value: String(value)}))
EnvEntries(env) ==
    [i \in 1..Len(env) |-> [name |-> env[i][1], value |-> String(env[i][2])]]

\* the properties a container gets only when they are set
ContainerPorts(r) ==
    IF TruthyNum(r.port) THEN [ports |-> <<[containerPort |-> r.port[1]]>>]
    ELSE EmptyObj

ContainerEnv(r) ==
    IF Len(r.env) > 0 THEN [env |-> EnvEntries(r.env)] ELSE EmptyObj

DeploymentToYAML(r) ==
    LET container ==
            [ name  |-> r.name,
              image |-> r.image,
              resources |->
                [ requests |-> [cpu |-> r.cpuRequest, memory |-> r.memoryRequest],
                  limits   |-> [cpu |-> r.cpuLimit, memory |-> r.memoryLimit] ] ]
            @@ ContainerPorts(r) @@ ContainerEnv(r)
    IN  [ apiVersion |-> "apps/v1",
          kind       |-> "Deployment",
          metadata   |-> [ name        |-> r.name,
                           namespace   |-> r.namespace,
                           labels      |-> r.labels,
                           annotations |-> r.annotations ],
          spec |-> [ replicas |-> r.replicas,
                     selector |-> [matchLabels |-> [app |-> r.name]],
                     template |->
                       [ metadata |-> [labels |-> r.labels @@ [app |-> r.name]],
                         spec     |-> [containers |-> <<container>>] ] ] ]

ServiceToYAML(r) ==
    [ apiVersion |-> "v1",
      kind       |-> "Service",
      metadata   |-> [ name        |-> r.name,
                       namespace   |-> r.namespace,
                       labels      |-> r.labels,
                       annotations |-> r.annotations ],
      spec |-> [ selector |-> [app |-> r.target],
                 ports    |-> << [ port       |-> r.port,
                                   targetPort |-> r.targetPort,
                                   protocol   |-> "TCP" ] >>,
                 type     |-> r.type ] ]

StatefulSetToYAML(r) ==
    LET storageName == r.name \o "-storage"
        container ==
            [ name  |-> r.name,
              image |-> r.image,
              volumeMounts |-> << [name |-> storageName,
                                   mountPath |-> "/var/lib/data"] >> ]
            @@ ContainerPorts(r) @@ ContainerEnv(r)
    IN  [ apiVersion |-> "apps/v1",
          kind       |-> "StatefulSet",
          metadata   |-> [ name      |-> r.name,
                           namespace |-> r.namespace,
                           labels    |-> r.labels ],
          spec |-> [ serviceName |-> r.name,
                     replicas    |-> r.replicas,
                     selector    |-> [matchLabels |-> [app |-> r.name]],
                     template    |->
                       [ metadata |-> [labels |-> [app |-> r.name]],
                         spec     |-> [containers |-> <<container>>] ],
                     volumeClaimTemplates |->
                       << [ metadata |-> [name |-> storageName],
                            spec |-> [ accessModes      |-> <<"ReadWriteOnce">>,
                                       storageClassName |-> r.storageClass,
                                       resources |->
                                         [requests |-> [storage |-> r.storage]] ] ] >> ] ]

ConfigMapToYAML(r) ==
    [ apiVersion |-> "v1",
      kind       |-> "ConfigMap",
      metadata   |-> [ name      |-> r.name,
                       namespace |-> r.namespace,
                       labels    |-> r.labels ],
      data       |-> r.data ]

(***************************************************************************)
(* Secret.toYAML: Buffer.from(String(value)).toString('base64')            *)
(***************************************************************************)
\* the base64 pad character '=', after the digits 0..63
Pad == 64

Utf8Latin1Mutant(cp) == <<cp % 256>>

\* the UTF-8 bytes of one code point
Utf8(cp) ==
    IF cp < 128 THEN <<cp>>
    ELSE IF cp < 2048 THEN <<192 + (cp \div 64), 128 + (cp % 64)>>
    ELSE IF cp < 65536
         THEN <<224 + (cp \div 4096), 128 + ((cp \div 64) % 64), 128 + (cp % 64)>>
    ELSE <<240 + (cp \div 262144), 128 + ((cp \div 4096) % 64),
           128 + ((cp \div 64) % 64), 128 + (cp % 64)>>

RECURSIVE BufferFrom(_)
\* Buffer.from(str): the UTF-8 bytes of a string
BufferFrom(str) ==
    IF Len(str) = 0 THEN << >>
    ELSE Utf8(Head(str)) \o BufferFrom(Tail(str))

RECURSIVE ToBase64(_)
\* buffer.toString('base64')
ToBase64(b) ==
    IF Len(b) = 0 THEN << >>
    ELSE IF Len(b) = 1
         THEN << b[1] \div 4, (b[1] % 4) * 16, Pad, Pad >>
    ELSE IF Len(b) = 2
         THEN << b[1] \div 4, ((b[1] % 4) * 16) + (b[2] \div 16),
                 (b[2] % 16) * 4, Pad >>
    ELSE << b[1] \div 4, ((b[1] % 4) * 16) + (b[2] \div 16),
            ((b[2] % 16) * 4) + (b[3] \div 64), b[3] % 64 >>
         \o ToBase64(SubSeq(b, 4, Len(b)))

SecretToYAML(r) ==
    LET encodedData ==
            [key \in DOMAIN r.data |-> ToBase64(BufferFrom(String(r.data[key])))]
    IN  [ apiVersion |-> "v1",
          kind       |-> "Secret",
          metadata   |-> [ name      |-> r.name,
                           namespace |-> r.namespace,
                           labels    |-> r.labels ],
          type       |-> r.type,
          data       |-> encodedData ]

HorizontalPodAutoscalerToYAML(r) ==
    [ apiVersion |-> "autoscaling/v2",
      kind       |-> "HorizontalPodAutoscaler",
      metadata   |-> [ name      |-> r.name,
                       namespace |-> r.namespace,
                       labels    |-> r.labels ],
      spec |-> [ scaleTargetRef |-> [ apiVersion |-> "apps/v1",
                                      kind       |-> "Deployment",
                                      name       |-> r.target ],
                 minReplicas |-> r.minReplicas,
                 maxReplicas |-> r.maxReplicas,
                 metrics |-> << [ type |-> "Resource",
                                  resource |->
                                    [ name   |-> "cpu",
                                      target |-> [ type |-> "Utilization",
                                                   averageUtilization |->
                                                       r.cpuPercent ] ] ] >> ] ]

\* resource.toYAML(): the method of the resource's class
ToYAML(r) ==
    CASE r.kind = "Deployment"  -> DeploymentToYAML(r)
      [] r.kind = "Service"     -> ServiceToYAML(r)
      [] r.kind = "StatefulSet" -> StatefulSetToYAML(r)
      [] r.kind = "ConfigMap"   -> ConfigMapToYAML(r)
      [] r.kind = "Secret"      -> SecretToYAML(r)
      [] r.kind = "HorizontalPodAutoscaler" -> HorizontalPodAutoscalerToYAML(r)

(***************************************************************************)
(* The derived builders                                                    *)
(***************************************************************************)
ServiceForNameMutant(deployment, options) ==
    Service(deployment.name, Obj(deployment),
            options @@
            [ port      |-> OrNum(Get(options, "port"), OrNum(deployment.port, 80)),
              type      |-> OrStr(Get(options, "type"), "ClusterIP"),
              namespace |-> deployment.namespace ])

ServiceFor(deployment, options) ==
    Service(deployment.name \o "-service", Obj(deployment),
            options @@
            [ port      |-> OrNum(Get(options, "port"), OrNum(deployment.port, 80)),
              type      |-> OrStr(Get(options, "type"), "ClusterIP"),
              namespace |-> deployment.namespace ])

AutoscaleForNamespaceMutant(deployment, options) ==
    HorizontalPodAutoscaler(deployment.name \o "-hpa", Obj(deployment),
            options @@
            [ minReplicas |-> OrNum(Get(options, "minReplicas"), 1),
              maxReplicas |-> OrNum(Get(options, "maxReplicas"), 10),
              cpuPercent  |-> OrNum(Get(options, "cpuPercent"), 80) ])

AutoscaleFor(deployment, options) ==
    HorizontalPodAutoscaler(deployment.name \o "-hpa", Obj(deployment),
            options @@
            [ minReplicas |-> OrNum(Get(options, "minReplicas"), 1),
              maxReplicas |-> OrNum(Get(options, "maxReplicas"), 10),
              cpuPercent  |-> OrNum(Get(options, "cpuPercent"), 80),
              namespace   |-> deployment.namespace ])

WebApp(name, image, options) ==
    LET replicas  == OrNum(Get(options, "replicas"), 3)
        port      == OrNum(Get(options, "port"), 80)
        autoScale == Get(options, "autoScale") # <<FALSE>>
        app       == Deployment(name,
                        [image |-> image, replicas |-> replicas, port |-> port]
                        @@ Prop("env", Get(options, "env"))
                        @@ Prop("namespace", Get(options, "namespace")))
        service   == ServiceFor(app, [type |-> "LoadBalancer"])
        resources == <<app, service>>
    IN  IF autoScale
        THEN Append(resources,
                    AutoscaleFor(app, [ minReplicas |-> replicas,
                                        maxReplicas |-> replicas * 3 ]))
        ELSE resources

Database(name, image, options) ==
    LET db == StatefulSet(name,
                  [image |-> image, storage |-> OrStr(Get(options, "storage"), "10Gi")]
                  @@ Prop("env", Get(options, "env"))
                  @@ Prop("port", Get(options, "port"))
                  @@ Prop("namespace", Get(options, "namespace")))
        service == ServiceFor(db, EmptyObj)
    IN  <<db, service>>

(***************************************************************************)
(* The builders as a state machine: a run is one call of a builder, on     *)
(* inputs drawn from the sets below, followed by calls of toYAML on the    *)
(* resources it returned and by a dry run of deploy on them.               *)
(***************************************************************************)
MaxStrLen == 2

\* the option objects with property k absent or holding a value of S
Opt(k, S) == {EmptyObj} \cup {k :> v : v \in S}
Both(A, B) == {a @@ b : a \in A, b \in B}

Names      == {"api", "db"}
Images     == {"myapi:latest"}
Namespaces == {"prod"}
EnvInputs  == { << <<"MODE", "on">>, <<"LEVEL", "2">> >> }

WorkloadOptions ==
    Both(Opt("replicas", {0, 3}),
    Both(Opt("port", {8080}),
    Both(Opt("namespace", Namespaces),
    Both(Opt("image", Images), Opt("env", EnvInputs)))))

ServiceOptions ==
    Both(Opt("port", {9000}),
    Both(Opt("targetPort", {3000}),
    Both(Opt("type", {"LoadBalancer"}), Opt("namespace", {"edge"}))))

AutoscaleOptions ==
    Both(Opt("minReplicas", {2, 12}),
    Both(Opt("maxReplicas", {5}),
    Both(Opt("cpuPercent", {50}), Opt("namespace", {"edge"}))))

WebAppOptions ==
    Both(Opt("replicas", {0, 2}),
    Both(Opt("port", {8080}),
    Both(Opt("namespace", Namespaces),
    Both(Opt("autoScale", {TRUE, FALSE}), Opt("env", EnvInputs)))))

DatabaseOptions ==
    Both(Opt("storage", {"20Gi"}),
    Both(Opt("port", {5432}),
    Both(Opt("namespace", Namespaces), Opt("env", EnvInputs))))

DataOptions == Opt("namespace", Namespaces)

\* strings as code points: 1-, 2-, 3- and 4-byte characters ('A', e-acute,
\* the euro sign, an emoji)
CodePoints == {65, 233, 8364, 128512}
Strings == UNION {[1..n -> CodePoints] : n \in 0..MaxStrLen}
SecretData == UNION {[ks -> Strings] : ks \in SUBSET {"api_key", "password"}}
ConfigData == {EmptyObj, [debug |-> "true"], [debug |-> "true", level |-> "info"]}

Workloads ==
    {Deployment(n, o) : n \in Names, o \in WorkloadOptions}
    \cup {StatefulSet(n, o) : n \in Names, o \in WorkloadOptions}

Targets == {Str(n) : n \in Names} \cup {Obj(w) : w \in Workloads}

BuildInit ==
    /\ call = [fn |-> "none"]
    /\ ret = << >>
    /\ doc = << >>

NewDeployment ==
    /\ call.fn = "none"
    /\ \E name \in Names, options \in WorkloadOptions :
            /\ call' = [fn |-> "Deployment", name |-> name, options |-> options]
            /\ ret' = <<Deployment(name, options)>>
            /\ doc' = << >>
            /\ UNCHANGED <<dvars, svars>>

NewStatefulSet ==
    /\ call.fn = "none"
    /\ \E name \in Names, options \in WorkloadOptions :
            /\ call' = [fn |-> "StatefulSet", name |-> name, options |-> options]
            /\ ret' = <<StatefulSet(name, options)>>
            /\ doc' = << >>
            /\ UNCHANGED <<dvars, svars>>

NewService ==
    /\ call.fn = "none"
    /\ \E name \in Names, target \in Targets, options \in ServiceOptions :
            /\ call' = [fn |-> "Service", name |-> name, target |-> target,
                        options |-> options]
            /\ ret' = <<Service(name, target, options)>>
            /\ doc' = << >>
            /\ UNCHANGED <<dvars, svars>>

NewConfigMap ==
    /\ call.fn = "none"
    /\ \E name \in Names, data \in ConfigData, options \in DataOptions :
            /\ call' = [fn |-> "ConfigMap", name |-> name, data |-> data,
                        options |-> options]
            /\ ret' = <<ConfigMap(name, data, options)>>
            /\ doc' = << >>
            /\ UNCHANGED <<dvars, svars>>

NewSecret ==
    /\ call.fn = "none"
    /\ \E name \in Names, data \in SecretData, options \in DataOptions :
            /\ call' = [fn |-> "Secret", name |-> name, data |-> data,
                        options |-> options]
            /\ ret' = <<Secret(name, data, options)>>
            /\ doc' = << >>
            /\ UNCHANGED <<dvars, svars>>

NewHorizontalPodAutoscaler ==
    /\ call.fn = "none"
    /\ \E name \in Names, target \in Targets, options \in AutoscaleOptions :
            /\ call' = [fn |-> "HorizontalPodAutoscaler", name |-> name,
                        target |-> target, options |-> options]
            /\ ret' = <<HorizontalPodAutoscaler(name, target, options)>>
            /\ doc' = << >>
            /\ UNCHANGED <<dvars, svars>>

CallServiceFor ==
    /\ call.fn = "none"
    /\ \E deployment \in Workloads, options \in ServiceOptions :
            /\ call' = [fn |-> "serviceFor", deployment |-> deployment,
                        options |-> options]
            /\ ret' = <<ServiceFor(deployment, options)>>
            /\ doc' = << >>
            /\ UNCHANGED <<dvars, svars>>

CallAutoscaleFor ==
    /\ call.fn = "none"
    /\ \E deployment \in Workloads, options \in AutoscaleOptions :
            /\ call' = [fn |-> "autoscaleFor", deployment |-> deployment,
                        options |-> options]
            /\ ret' = <<AutoscaleFor(deployment, options)>>
            /\ doc' = << >>
            /\ UNCHANGED <<dvars, svars>>

CallWebApp ==
    /\ call.fn = "none"
    /\ \E name \in Names, image \in Images, options \in WebAppOptions :
            /\ call' = [fn |-> "webApp", name |-> name, image |-> image,
                        options |-> options]
            /\ ret' = WebApp(name, image, options)
            /\ doc' = << >>
            /\ UNCHANGED <<dvars, svars>>

CallDatabase ==
    /\ call.fn = "none"
    /\ \E name \in Names, image \in Images, options \in DatabaseOptions :
            /\ call' = [fn |-> "database", name |-> name, image |-> image,
                        options |-> options]
            /\ ret' = Database(name, image, options)
            /\ doc' = << >>
            /\ UNCHANGED <<dvars, svars>>

CallToYAMLMarkMutant ==
    \E i \in 1..Len(ret) :
        /\ doc' = <<i, ToYAML(ret[i])>>
        /\ ret' = [ret EXCEPT ![i].labels = ("serialized" :> "true") @@ @]
        /\ UNCHANGED call
        /\ UNCHANGED <<dvars, svars>>

\* ret[i].toYAML()
CallToYAML ==
    \E i \in 1..Len(ret) :
        /\ doc' = <<i, ToYAML(ret[i])>>
        /\ UNCHANGED <<call, ret>>
        /\ UNCHANGED <<dvars, svars>>

BuildNext ==
    \/ NewDeployment \/ NewStatefulSet \/ NewService
    \/ NewConfigMap \/ NewSecret \/ NewHorizontalPodAutoscaler
    \/ CallServiceFor \/ CallAutoscaleFor \/ CallWebApp \/ CallDatabase
    \/ CallToYAML


(***************************************************************************)
(* Properties of the builders                                              *)
(***************************************************************************)
\* the apiVersion the Kubernetes schema gives each kind
SchemaApiVersion ==
    [ Deployment              |-> "apps/v1",
      StatefulSet             |-> "apps/v1",
      Service                 |-> "v1",
      ConfigMap               |-> "v1",
      Secret                  |-> "v1",
      HorizontalPodAutoscaler |-> "autoscaling/v2" ]

\* C6: for each of the six builders and every input, the document toYAML
\* returns has the kind requested and that kind's apiVersion, metadata.name
\* equal to the name argument, and metadata.namespace equal to
\* options.namespace when it is given and to 'default' when it is omitted.
C6_KindNameNamespace ==
    (call.fn \in DOMAIN SchemaApiVersion /\ doc # << >>) =>
        LET d == doc[2]
        IN  /\ d.kind = call.fn
            /\ d.apiVersion = SchemaApiVersion[call.fn]
            /\ d.metadata.name = call.name
            /\ d.metadata.namespace =
                   IF "namespace" \in DOMAIN call.options
                   THEN call.options.namespace ELSE "default"

C6_Witness ==
    /\ call.fn = "HorizontalPodAutoscaler"
    /\ doc # << >>
    /\ "namespace" \in DOMAIN call.options
    /\ doc[2].metadata.namespace = "edge"
    /\ doc[2].apiVersion = "autoscaling/v2"

\* C7: a workload builder (Deployment, StatefulSet) given replica count n
\* yields a document whose spec.replicas is n verbatim, and 1 when no count
\* is given; the Deployment of webApp with no count has spec.replicas 3.
C7_ReplicasVerbatim ==
    doc # << >> =>
        /\ call.fn \in {"Deployment", "StatefulSet"} =>
               doc[2].spec.replicas =
                   IF "replicas" \in DOMAIN call.options
                   THEN call.options.replicas ELSE 1
        /\ (call.fn = "webApp" /\ doc[1] = 1
              /\ "replicas" \notin DOMAIN call.options) =>
               doc[2].spec.replicas = 3

\* C8: a Service built from a workload object that specifies a port, with no
\* explicit targetPort, has the workload's port as its targetPort, whatever
\* its own port is.
C8_TargetPortFromWorkload ==
    doc # << >> =>
        /\ (call.fn = "Service" /\ call.target.typeof = "object"
              /\ call.target.value.port # undefined
              /\ "targetPort" \notin DOMAIN call.options) =>
               doc[2].spec.ports[1].targetPort = call.target.value.port[1]
        /\ (call.fn = "serviceFor" /\ call.deployment.port # undefined
              /\ "targetPort" \notin DOMAIN call.options) =>
               doc[2].spec.ports[1].targetPort = call.deployment.port[1]

C8_Witness ==
    /\ call.fn = "Service"
    /\ call.target.typeof = "object"
    /\ call.target.value.port = <<8080>>
    /\ call.options = [port |-> 9000]
    /\ doc # << >>
    /\ doc[2].spec.ports[1].port = 9000
    /\ doc[2].spec.ports[1].targetPort = 8080

\* a base64 text: groups of four digits, pads only at the end of the last
IsBase64(t) ==
    /\ Len(t) % 4 = 0
    /\ \A i \in 1..Len(t) : t[i] \in 0..Pad
    /\ \A i \in 1..Len(t) :
           t[i] = Pad => /\ i > Len(t) - 2
                         /\ \A j \in i..Len(t) : t[j] = Pad

RECURSIVE FromBase64(_)
\* the bytes a base64 text decodes to
FromBase64(t) ==
    IF Len(t) < 4 THEN << >>
    ELSE LET b1 == (t[1] * 4) + (t[2] \div 16)
             b2 == ((t[2] % 16) * 16) + (t[3] \div 4)
             b3 == ((t[3] % 4) * 64) + t[4]
         IN  (IF t[3] = Pad THEN <<b1>>
              ELSE IF t[4] = Pad THEN <<b1, b2>>
              ELSE <<b1, b2, b3>>)
             \o FromBase64(SubSeq(t, 5, Len(t)))

\* the number of bytes of the UTF-8 sequence a lead byte opens
Utf8Width(lead) ==
    IF lead < 128 THEN 1
    ELSE IF lead \in 192..223 THEN 2
    ELSE IF lead \in 224..239 THEN 3
    ELSE IF lead \in 240..247 THEN 4
    ELSE 0

RECURSIVE FromUtf8(_)
\* the code points UTF-8 bytes decode to; 65533 stands for a malformed byte
FromUtf8(b) ==
    IF Len(b) = 0 THEN << >>
    ELSE LET w == Utf8Width(b[1])
             ok == /\ w > 0
                   /\ w <= Len(b)
                   /\ \A i \in 2..w : b[i] \in 128..191
             cp == IF w = 1 THEN b[1]
                   ELSE IF w = 2 THEN ((b[1] - 192) * 64) + (b[2] - 128)
                   ELSE IF w = 3
                        THEN ((b[1] - 224) * 4096) + ((b[2] - 128) * 64)
                             + (b[3] - 128)
                   ELSE ((b[1] - 240) * 262144) + ((b[2] - 128) * 4096)
                        + ((b[3] - 128) * 64) + (b[4] - 128)
         IN  IF ok THEN <<cp>> \o FromUtf8(SubSeq(b, w + 1, Len(b)))
             ELSE <<65533>> \o FromUtf8(Tail(b))

\* C9: the document of a Secret has the key set of the input mapping, every
\* value is a base64 text, and decoding it (base64, then UTF-8) gives back
\* the input string exactly.
C9_SecretRoundTrip ==
    (call.fn = "Secret" /\ doc # << >>) =>
        /\ DOMAIN doc[2].data = DOMAIN call.data
        /\ \A key \in DOMAIN call.data :
               /\ IsBase64(doc[2].data[key])
               /\ FromUtf8(FromBase64(doc[2].data[key])) = call.data[key]

C9_Witness ==
    /\ call.fn = "Secret"
    /\ doc # << >>
    /\ DOMAIN call.data = {"api_key", "password"}
    /\ call.data["password"] = <<8364, 65>>
    /\ doc[2].data["password"] = <<56, 40, 10, 44, 16, 16, Pad, Pad>>

\* C10: serviceFor(W) with default options is a Service named W.name +
\* '-service' that selects W.name, on W's port (80 when W has none), of type
\* 'ClusterIP', in W's namespace; workload 'api' with image 'myapi:latest',
\* replicas 3 and port 8080 gives 'api-service', target 'api', port 8080,
\* type 'ClusterIP'.
C10_ServiceForDefaults ==
    (call.fn = "serviceFor" /\ call.options = EmptyObj /\ doc # << >>) =>
        LET W == call.deployment
            d == doc[2]
        IN  /\ d.kind = "Service"
            /\ d.metadata.name = W.name \o "-service"
            /\ d.spec.selector = [app |-> W.name]
            /\ d.spec.ports[1].port = IF W.port = undefined THEN 80 ELSE W.port[1]
            /\ d.spec.type = "ClusterIP"
            /\ d.metadata.namespace = W.namespace
            /\ (W.kind = "Deployment" /\ W.name = "api" /\ W.port = <<8080>>) =>
                   /\ d.metadata.name = "api-service"
                   /\ d.spec.selector.app = "api"
                   /\ d.spec.ports[1].port = 8080

C10_Witness ==
    /\ call.fn = "serviceFor"
    /\ call.options = EmptyObj
    /\ call.deployment = Deployment("api", [ image    |-> "myapi:latest",
                                             replicas |-> 3,
                                             port     |-> 8080 ])
    /\ doc # << >>
    /\ doc[2].metadata.name = "api-service"
    /\ doc[2].spec.ports[1].port = 8080
    /\ doc[2].spec.type = "ClusterIP"

\* the six constructors
Constructors == DOMAIN SchemaApiVersion

\* the properties of a resource that hold undefined
UndefinedFields(r) == {k \in {"image", "port"} \cap DOMAIN r : r[k] = undefined}

\* the container of a workload document
Container(d) == d.spec.template.spec.containers[1]

\* C11: a resource constructed with only its required arguments has a
\* defined value in every field (image, replicas, port, requests and limits,
\* storage, namespace, type, replica bounds), and its document carries no
\* undefined field.
C11_AllFieldsDefaulted ==
    (call.fn \in Constructors /\ call.options = EmptyObj) =>
        /\ UndefinedFields(ret[1]) = {}
        /\ (doc # << >> /\ call.fn \in {"Deployment", "StatefulSet"}) =>
               Container(doc[2]).image # undefined

\* the namespace a composite builder's workload is in
WorkloadNamespace == IF "namespace" \in DOMAIN call.options
                     THEN call.options.namespace ELSE "default"

\* a resource is of a kind, refers to a name and is in a namespace
Refers(r, kind, name, namespace) ==
    /\ r.kind = kind
    /\ r.target = name
    /\ r.namespace = namespace

\* C12: webApp(name, image, options) returns, in this order, exactly a
\* Deployment, the Service derived from it and, unless options.autoScale is
\* false, the autoscale policy derived from it; database(name, image,
\* options) returns exactly a StatefulSet and then the Service derived from
\* it; every resource returned refers to name and is in the namespace of the
\* workload, in the resource and in its document.
C12_CompositeBuilders ==
    /\ call.fn = "webApp" =>
           /\ Len(ret) = IF Get(call.options, "autoScale") = <<FALSE>> THEN 2 ELSE 3
           /\ ret[1].kind = "Deployment"
           /\ ret[1].name = call.name
           /\ ret[1].namespace = WorkloadNamespace
           /\ ret[2].name = call.name \o "-service"
           /\ Refers(ret[2], "Service", call.name, WorkloadNamespace)
           /\ Len(ret) = 3 =>
                  /\ ret[3].name = call.name \o "-hpa"
                  /\ Refers(ret[3], "HorizontalPodAutoscaler", call.name,
                            WorkloadNamespace)
    /\ call.fn = "database" =>
           /\ Len(ret) = 2
           /\ ret[1].kind = "StatefulSet"
           /\ ret[1].name = call.name
           /\ ret[1].namespace = WorkloadNamespace
           /\ ret[2].name = call.name \o "-service"
           /\ Refers(ret[2], "Service", call.name, WorkloadNamespace)
    /\ (call.fn \in {"webApp", "database"} /\ doc # << >>) =>
           LET d == doc[2]
           IN  /\ d.kind = ret[doc[1]].kind
               /\ d.metadata.namespace = WorkloadNamespace
               /\ d.kind \in {"Deployment", "StatefulSet"} =>
                      /\ d.metadata.name = call.name
                      /\ d.spec.selector.matchLabels.app = call.name
               /\ d.kind = "Service" => d.spec.selector.app = call.name
               /\ d.kind = "HorizontalPodAutoscaler" =>
                      d.spec.scaleTargetRef.name = call.name

C12_Witness ==
    /\ call.fn = "webApp"
    /\ call.name = "api"
    /\ Get(call.options, "namespace") = <<"prod">>
    /\ Len(ret) = 3
    /\ doc # << >>
    /\ doc[1] = 3
    /\ doc[2].kind = "HorizontalPodAutoscaler"
    /\ doc[2].metadata.namespace = "prod"
    /\ doc[2].spec.scaleTargetRef.name = "api"

(***************************************************************************)
(* deploy(...resources)                                                  *)
(*                                                                         *)
(* Each process of Procs is one Node.js process that calls deploy once.    *)
(* The processes run on one machine: they share the clock and the          *)
(* temporary directory. A call that neither prints a dry run nor returns   *)
(* early takes three steps, one for each call that reaches outside the     *)
(* process: writeFileSync, execSync and unlinkSync.                        *)
(***************************************************************************)
MaxBatch == 2
MaxClock == 1

Procs == {1, 2}

\* the messages of the errors thrown, as the words includes() is asked for
ModuleNotFound     == <<"Cannot find module", "js-yaml">>
NotAFunction       == <<"resource.toYAML is not a function">>
CommandFailed(cmd) == <<"Command failed:">> \o cmd
NoSuchFile(path)   == <<"ENOENT: no such file or directory, unlink", path>>

\* error.message.includes(word)
Includes(message, word) == \E i \in 1..Len(message) : message[i] = word

Running         == [kind |-> "none"]
Returned(value) == [kind |-> "returned", value |-> value]
Threw(message)  == [kind |-> "threw", message |-> message]

\* yaml.dump(document): the YAML text of one document
Dump(document) == [yaml |-> document]
\* the text '---\n' between two documents
Separator == [separator |-> "---"]

\* path.join(os.tmpdir(), `mini-kuber-${Date.now()}.yaml`)
TempFile(now) == "tmp/mini-kuber-" \o ToString(now) \o ".yaml"

\* `kubectl apply -f ${tempFile}`
Command(path) == <<"kubectl", "apply", "-f", path>>

\* whether an argument has a toYAML method: it was made by a builder
HasToYAML(o) == "kind" \in DOMAIN o

Announce(resource) ==
    [line |-> "resource", kind |-> resource.kind, name |-> resource.name]

RECURSIVE LoopSkipMutant(_, _, _)
LoopSkipMutant(resources, yamls, lines) ==
    IF Len(resources) = 0
    THEN [allYAML |-> yamls, lines |-> lines, threw |-> FALSE]
    ELSE IF ~HasToYAML(Head(resources))
         THEN [allYAML |-> yamls, lines |-> lines, threw |-> TRUE]
    ELSE LoopSkipMutant(Tail(resources),
              IF Head(resources).kind = "Service" THEN yamls
              ELSE Append(yamls, ToYAML(Head(resources))),
              Append(lines, Announce(Head(resources))))

RECURSIVE Loop(_, _, _)
\* for (const resource of actualResources) { toYAML, push, console.log }
Loop(resources, yamls, lines) ==
    IF Len(resources) = 0
    THEN [allYAML |-> yamls, lines |-> lines, threw |-> FALSE]
    ELSE IF ~HasToYAML(Head(resources))
         THEN [allYAML |-> yamls, lines |-> lines, threw |-> TRUE]
    ELSE Loop(Tail(resources),
              Append(yamls, ToYAML(Head(resources))),
              Append(lines, Announce(Head(resources))))

RECURSIVE DryRunLines(_)
\* for (const yamlContent of allYAML) { log('---'); log(yaml.dump(...)) }
DryRunLines(yamls) ==
    IF Len(yamls) = 0 THEN << >>
    ELSE << [line |-> "---"], [line |-> "yaml", text |-> Dump(Head(yamls))] >>
         \o DryRunLines(Tail(yamls))

YamlStringReversedMutant(yamls) ==
    IF Len(yamls) < 2 THEN [i \in 1..Len(yamls) |-> Dump(yamls[i])]
    ELSE [i \in 1..(2 * Len(yamls) - 1) |->
             IF i % 2 = 0 THEN Separator
             ELSE Dump(yamls[Len(yamls) - (i \div 2)])]

RECURSIVE YamlStringFrom(_, _)
YamlStringFrom(yamls, i) ==
    IF i > Len(yamls) THEN << >>
    ELSE (IF i > 1 THEN <<Separator>> ELSE << >>)
         \o <<Dump(yamls[i])>> \o YamlStringFrom(yamls, i + 1)

\* the loop that builds yamlString, a '---' line before each document but
\* the first
YamlString(yamls) == YamlStringFrom(yamls, 1)

\* the catch block: the line it prints for an error
CatchLine(message) ==
    IF Includes(message, "js-yaml")
    THEN [line |-> "js-yaml required: npm install js-yaml"]
    ELSE IF Includes(message, "kubectl")
    THEN [line |-> "kubectl not found. Please install kubectl and configure cluster access."]
    ELSE [line |-> "Deployment error", message |-> message]

UnlinkedKeepMutant(fs, path) == fs

\* the directory after unlinkSync(path) removed the file
Unlinked(fs, path) == [q \in (DOMAIN fs) \ {path} |-> fs[q]]

\* the directory after writeFileSync(path, data)
Written(fs, path, data) == (path :> data) @@ fs

\* the resources the calls pass: a workload and the Service derived from it
PoolApp     == Deployment("api", [image |-> "myapi:latest", replicas |-> 3,
                                  port |-> 8080])
PoolService == ServiceFor(PoolApp, EmptyObj)
Pool        == {PoolApp, PoolService}

Batches == UNION {[1..n -> Pool] : n \in 0..MaxBatch}

\* the objects a caller may pass last
OptionObjects ==
    { [dryRun |-> TRUE], [dryRun |-> FALSE], [apply |-> FALSE],
      [dryRun |-> FALSE, apply |-> FALSE] }

ArgLists ==
    Batches \cup {Append(b, o) : b \in Batches, o \in OptionObjects}

\* const options = resources[resources.length - 1]
Options(resources) ==
    IF Len(resources) = 0 THEN undefined ELSE <<resources[Len(resources)]>>

\* typeof options === 'object' && options.dryRun !== undefined
\*     ? resources.slice(0, -1) : resources
ActualResources(resources) ==
    IF Options(resources) # undefined /\ "dryRun" \in DOMAIN Options(resources)[1]
    THEN SubSeq(resources, 1, Len(resources) - 1)
    ELSE resources

\* options && options.dryRun
DryRun(resources) ==
    /\ Options(resources) # undefined
    /\ Get(Options(resources)[1], "dryRun") = <<TRUE>>

\* options && options.apply !== false
Apply(resources) ==
    /\ Options(resources) # undefined
    /\ Get(Options(resources)[1], "apply") # <<FALSE>>

DeployInit ==
    /\ clock = 0
    /\ files = EmptyObj
    /\ pc = [p \in Procs |-> "idle"]
    /\ required = [p \in Procs |-> "no"]
    /\ args = [p \in Procs |-> << >>]
    /\ allYAML = [p \in Procs |-> << >>]
    /\ log = [p \in Procs |-> << >>]
    /\ tempFile = [p \in Procs |-> undefined]
    /\ completion = [p \in Procs |-> Running]
    /\ outcome = [p \in Procs |-> Running]
    /\ effects = [p \in Procs |-> << >>]

(***************************************************************************)
(* class MicroserviceArchitecture (src/unnamed/part_000): its constructor, *)
(* and the calls of deployWithStaging and waitForServices before they are  *)
(* made                                                                    *)
(***************************************************************************)
MicroserviceArchitecture(namespace) ==
    [ namespace |-> namespace,
      services  |-> << >>,
      configs   |-> << >>,
      secrets   |-> << >> ]

StagingInit ==
    /\ arch = MicroserviceArchitecture("microservices")
    /\ made = {}
    /\ staging = [ pc |-> "new", submitted |-> << >>, results |-> << >>,
                   log |-> << >>, outcome |-> Running ]
    /\ wait = [ pc |-> "idle", serviceNames |-> << >>, startTime |-> 0,
                timeoutMs |-> 0, log |-> << >>, outcome |-> Running ]

Init == BuildInit /\ DeployInit /\ StagingInit

\* deploy(...resources), lines 304-333: the arguments are read, every
\* resource is visited, and the call prints the dry run, returns early, or
\* goes on to apply; yaml is what require('js-yaml') does if it is reached
Deploy(p, resources, yaml) ==
    LET actualResources == ActualResources(resources)
        loop == Loop(actualResources, << >>,
                     << [line |-> "Deploying", count |-> Len(actualResources)] >>)
        dry  == loop.lines \o << [line |-> "Dry run - YAML would be:"] >>
    IN  /\ args' = [args EXCEPT ![p] = resources]
        /\ required' = [required EXCEPT
                            ![p] = IF ~loop.threw /\ DryRun(resources)
                                   THEN yaml ELSE "no"]
        /\ allYAML' = [allYAML EXCEPT ![p] = loop.allYAML]
        /\ IF loop.threw
           THEN /\ log' = [log EXCEPT ![p] = loop.lines]
                /\ outcome' = [outcome EXCEPT ![p] = Threw(NotAFunction)]
                /\ pc' = [pc EXCEPT ![p] = "done"]
           ELSE IF DryRun(resources)
           THEN IF yaml = "resolved"
                THEN /\ log' = [log EXCEPT
                                  ![p] = dry \o DryRunLines(loop.allYAML)]
                     /\ outcome' = [outcome EXCEPT ![p] = Returned(TRUE)]
                     /\ pc' = [pc EXCEPT ![p] = "done"]
                ELSE /\ log' = [log EXCEPT ![p] = dry]
                     /\ outcome' = [outcome EXCEPT ![p] = Threw(ModuleNotFound)]
                     /\ pc' = [pc EXCEPT ![p] = "done"]
           ELSE IF ~Apply(resources)
           THEN /\ log' = [log EXCEPT ![p] = loop.lines]
                /\ outcome' = [outcome EXCEPT ![p] = Returned(TRUE)]
                /\ pc' = [pc EXCEPT ![p] = "done"]
           ELSE /\ log' = [log EXCEPT ![p] = loop.lines]
                /\ outcome' = outcome
                /\ pc' = [pc EXCEPT ![p] = "apply"]
        /\ UNCHANGED <<clock, files, tempFile, completion, effects>>

\* a process calls deploy
DeployCall(p) ==
    /\ pc[p] = "idle"
    /\ \E resources \in ArgLists, yaml \in {"resolved", "missing"} :
            Deploy(p, resources, yaml)
    /\ UNCHANGED <<bvars, svars>>

\* the example's last line, deploy(...allResources, { dryRun: true }), on
\* the resources a builder returned
DeployDryRun ==
    /\ call.fn # "none"
    /\ pc[1] = "idle"
    /\ \E yaml \in {"resolved", "missing"} :
            Deploy(1, Append(ret, [dryRun |-> TRUE]), yaml)
    /\ UNCHANGED <<bvars, svars>>

\* lines 335-345 (and the catch block): require js-yaml, name the file,
\* build yamlString and write it
ApplyWrite(p) ==
    /\ pc[p] = "apply"
    /\ \E yaml \in {"resolved", "missing"} :
        /\ required' = [required EXCEPT ![p] = yaml]
        /\ IF yaml = "missing"
           THEN /\ log' = [log EXCEPT ![p] = Append(@, CatchLine(ModuleNotFound))]
                /\ outcome' = [outcome EXCEPT ![p] = Returned(FALSE)]
                /\ pc' = [pc EXCEPT ![p] = "done"]
                /\ UNCHANGED <<files, tempFile, effects>>
           ELSE
            LET path == TempFile(clock)
                yamlString == YamlString(allYAML[p])
            IN  /\ tempFile' = [tempFile EXCEPT ![p] = <<path>>]
                /\ files' = Written(files, path, yamlString)
                /\ effects' = [effects EXCEPT ![p] = Append(@,
                                  [ op   |-> "writeFileSync",
                                    path |-> path,
                                    data |-> yamlString ])]
                /\ pc' = [pc EXCEPT ![p] = "exec"]
                /\ UNCHANGED <<log, outcome>>
    /\ UNCHANGED <<clock, args, allYAML, completion>>
    /\ UNCHANGED <<bvars, svars>>

\* lines 347-350: execSync runs kubectl, which exits with status 0, with
\* status 1 (it rejects the file) or is not found (the shell's status 127);
\* it cannot succeed on a file that is not there
ApplyExec(p) ==
    /\ pc[p] = "exec"
    /\ \E status \in {0, 1, 127} :
        LET path == tempFile[p][1]
        IN  /\ (path \notin DOMAIN files) => status # 0
            /\ effects' = [effects EXCEPT ![p] = Append(@,
                              [ op      |-> "execSync",
                                command |-> Command(path),
                                status  |-> status ])]
            /\ IF status = 0
               THEN /\ log' = [log EXCEPT
                                 ![p] = Append(@, [line |-> "Deployment successful!"])]
                    /\ completion' = [completion EXCEPT ![p] = Returned(TRUE)]
               ELSE /\ log' = log
                    /\ completion' = [completion EXCEPT
                                        ![p] = Threw(CommandFailed(Command(path)))]
    /\ pc' = [pc EXCEPT ![p] = "finally"]
    /\ UNCHANGED <<clock, files, required, args, allYAML, tempFile, outcome>>
    /\ UNCHANGED <<bvars, svars>>

\* lines 351-364: finally unlinkSync, which throws when the file is gone,
\* and then the return of the try block or the catch block
ApplyFinally(p) ==
    /\ pc[p] = "finally"
    /\ LET path  == tempFile[p][1]
           there == path \in DOMAIN files
           final == IF there THEN completion[p] ELSE Threw(NoSuchFile(path))
       IN  /\ files' = IF there THEN Unlinked(files, path) ELSE files
           /\ effects' = [effects EXCEPT ![p] = Append(@,
                             [ op     |-> "unlinkSync",
                               path   |-> path,
                               failed |-> ~there ])]
           /\ IF final.kind = "threw"
              THEN /\ log' = [log EXCEPT ![p] = Append(@, CatchLine(final.message))]
                   /\ outcome' = [outcome EXCEPT ![p] = Returned(FALSE)]
              ELSE /\ log' = log
                   /\ outcome' = [outcome EXCEPT ![p] = final]
    /\ pc' = [pc EXCEPT ![p] = "done"]
    /\ UNCHANGED <<clock, required, args, allYAML, tempFile, completion>>
    /\ UNCHANGED <<bvars, svars>>

\* a millisecond passes, while a call may still read the clock
Tick ==
    /\ clock < MaxClock
    /\ \E p \in Procs : pc[p] \in {"idle", "apply"}
    /\ clock' = clock + 1
    /\ UNCHANGED <<files, pc, required, args, allYAML, log, tempFile,
                   completion, outcome, effects>>
    /\ UNCHANGED <<bvars, svars>>

Next ==
    \/ \E p \in Procs : DeployCall(p)
    \/ \E p \in Procs : ApplyWrite(p)
    \/ \E p \in Procs : ApplyExec(p)
    \/ \E p \in Procs : ApplyFinally(p)
    \/ Tick

Spec == Init /\ [][Next]_vars

SpecBuild == Init /\ [][BuildNext \/ DeployDryRun]_vars

(***************************************************************************)
(* The microservices example (src/unnamed/part_000)                        *)
(*                                                                         *)
(* The script's process (process 1) builds a MicroserviceArchitecture by   *)
(* calling its create methods, in the order build() calls them and         *)
(* possibly leaving some out, and then calls deployWithStaging, which      *)
(* calls deploy once per stage, or calls waitForServices directly.         *)
(***************************************************************************)
MaxLate == 1

ReadyPauseMs     == 5000
RetryPauseMs     == 2000
DefaultTimeoutMs == 60000

\* the order in which build() calls the create methods
BuildOrder ==
    [ createFrontend         |-> 1,
      createApiGateway       |-> 2,
      createUserService      |-> 3,
      createOrderService     |-> 4,
      createPaymentService   |-> 5,
      createInventoryService |-> 6,
      createDatabases        |-> 7,
      createSharedServices   |-> 8,
      createConfiguration    |-> 9 ]

\* a create method may be called: nothing is deployed yet, and the methods
\* called so far come before it in build()
CanCall(method) ==
    /\ staging.pc = "new"
    /\ wait.pc = "idle"
    /\ \A m \in made : BuildOrder[m] < BuildOrder[method]

\* this.services.push(...resources); return this
Push(method, resources) ==
    /\ arch' = [arch EXCEPT !.services = @ \o resources]
    /\ made' = made \cup {method}
    /\ UNCHANGED <<staging, wait>>
    /\ UNCHANGED <<bvars, dvars>>

CreateFrontend ==
    /\ CanCall("createFrontend")
    /\ LET frontend ==
               Deployment("frontend",
                   [ image     |-> "nginx:latest",
                     replicas  |-> 2,
                     port      |-> 80,
                     namespace |-> arch.namespace,
                     env       |-> << <<"API_GATEWAY_URL",
                                        "http://api-gateway-service:8080">>,
                                      <<"ENVIRONMENT", "production">> >> ])
           frontendService ==
               ServiceFor(frontend, [type |-> "LoadBalancer", port |-> 80])
       IN  Push("createFrontend", <<frontend, frontendService>>)

CreateApiGateway ==
    /\ CanCall("createApiGateway")
    /\ LET gateway ==
               Deployment("api-gateway",
                   [ image     |-> "nginx:latest",
                     replicas  |-> 3,
                     port      |-> 8080,
                     namespace |-> arch.namespace,
                     env       |-> << <<"USER_SERVICE_URL",
                                        "http://user-service:3001">>,
                                      <<"ORDER_SERVICE_URL",
                                        "http://order-service:3002">>,
                                      <<"PAYMENT_SERVICE_URL",
                                        "http://payment-service:3003">>,
                                      <<"INVENTORY_SERVICE_URL",
                                        "http://inventory-service:3004">> >> ])
           gatewayService == ServiceFor(gateway, EmptyObj)
       IN  Push("createApiGateway", <<gateway, gatewayService>>)

CreateUserService ==
    /\ CanCall("createUserService")
    /\ LET userService ==
               Deployment("user-service",
                   [ image     |-> "node:16",
                     replicas  |-> 2,
                     port      |-> 3001,
                     namespace |-> arch.namespace,
                     env       |-> << <<"DATABASE_URL",
                                        "postgres://user-db-service:5432/users">>,
                                      <<"REDIS_URL", "redis://redis-service:6379">>,
                                      <<"JWT_SECRET", "user-jwt-secret-key">> >> ])
           service == ServiceFor(userService, EmptyObj)
       IN  Push("createUserService", <<userService, service>>)

CreateOrderService ==
    /\ CanCall("createOrderService")
    /\ LET orderService ==
               Deployment("order-service",
                   [ image     |-> "node:16",
                     replicas  |-> 3,
                     port      |-> 3002,
                     namespace |-> arch.namespace,
                     env       |-> << <<"DATABASE_URL",
                                        "postgres://order-db-service:5432/orders">>,
                                      <<"PAYMENT_SERVICE_URL",
                                        "http://payment-service:3003">>,
                                      <<"INVENTORY_SERVICE_URL",
                                        "http://inventory-service:3004">>,
                                      <<"RABBITMQ_URL",
                                        "amqp://rabbitmq-service:5672">> >> ])
           service == ServiceFor(orderService, EmptyObj)
       IN  Push("createOrderService", <<orderService, service>>)

CreatePaymentService ==
    /\ CanCall("createPaymentService")
    /\ LET paymentService ==
               Deployment("payment-service",
                   [ image         |-> "node:16",
                     replicas      |-> 2,
                     port          |-> 3003,
                     namespace     |-> arch.namespace,
                     env           |-> << <<"DATABASE_URL",
                                            "postgres://payment-db-service:5432/payments">>,
                                          <<"STRIPE_SECRET_KEY", "stripe-secret-key">>,
                                          <<"ENCRYPTION_KEY",
                                            "payment-encryption-key">> >>,
                     cpuRequest    |-> "200m",
                     memoryRequest |-> "256Mi",
                     cpuLimit      |-> "500m",
                     memoryLimit   |-> "512Mi" ])
           service == ServiceFor(paymentService, EmptyObj)
       IN  Push("createPaymentService", <<paymentService, service>>)

CreateInventoryService ==
    /\ CanCall("createInventoryService")
    /\ LET inventoryService ==
               Deployment("inventory-service",
                   [ image     |-> "node:16",
                     replicas  |-> 2,
                     port      |-> 3004,
                     namespace |-> arch.namespace,
                     env       |-> << <<"DATABASE_URL",
                                        "postgres://inventory-db-service:5432/inventory">>,
                                      <<"REDIS_URL",
                                        "redis://redis-service:6379">> >> ])
           service == ServiceFor(inventoryService, EmptyObj)
       IN  Push("createInventoryService", <<inventoryService, service>>)

\* createDatabases: StatefulSet is not among the names line 21 imports, so
\* `new StatefulSet` (line 162) throws a ReferenceError before anything is
\* pushed
CreateDatabases ==
    /\ CanCall("createDatabases")
    /\ made' = made \cup {"createDatabases"}
    /\ UNCHANGED <<arch, staging, wait>>
    /\ UNCHANGED <<bvars, dvars>>

CreateSharedServices ==
    /\ CanCall("createSharedServices")
    /\ LET redis ==
               Deployment("redis",
                   [ image     |-> "redis:7",
                     port      |-> 6379,
                     replicas  |-> 1,
                     namespace |-> arch.namespace,
                     env       |-> << <<"REDIS_PASSWORD",
                                        "redis_secure_password">> >> ])
           rabbitmq ==
               Deployment("rabbitmq",
                   [ image     |-> "rabbitmq:3-management",
                     port      |-> 5672,
                     replicas  |-> 1,
                     namespace |-> arch.namespace,
                     env       |-> << <<"RABBITMQ_DEFAULT_USER", "admin">>,
                                      <<"RABBITMQ_DEFAULT_PASS",
                                        "rabbitmq_password">> >> ])
           redisService    == ServiceFor(redis, EmptyObj)
           rabbitmqService == ServiceFor(rabbitmq, EmptyObj)
           rabbitmqMgmt ==
               Service("rabbitmq-mgmt", Obj(rabbitmq),
                       [port |-> 15672, namespace |-> arch.namespace])
       IN  Push("createSharedServices",
                <<redis, rabbitmq, redisService, rabbitmqService, rabbitmqMgmt>>)

CreateConfiguration ==
    /\ CanCall("createConfiguration")
    /\ LET globalConfig ==
               ConfigMap("microservices-config",
                   ("service.timeout" :> "30s")
                   @@ ("log.level" :> "info")
                   @@ ("metrics.enabled" :> "true")
                   @@ ("tracing.enabled" :> "true")
                   @@ ("health.check.interval" :> "10s"),
                   EmptyObj)
           \* the values, as code points: 'super-secret-jwt-key-for-auth',
           \* 'sk_test_your_stripe_secret_key',
           \* 'advanced-encryption-key-256-bit',
           \* 'ultra-secure-master-db-password'
           secrets ==
               Secret("microservices-secrets",
                   ("jwt_secret" :>
                      <<115, 117, 112, 101, 114, 45, 115, 101, 99, 114, 101,
                        116, 45, 106, 119, 116, 45, 107, 101, 121, 45, 102,
                        111, 114, 45, 97, 117, 116, 104>>)
                   @@ ("stripe_secret" :>
                      <<115, 107, 95, 116, 101, 115, 116, 95, 121, 111, 117,
                        114, 95, 115, 116, 114, 105, 112, 101, 95, 115, 101,
                        99, 114, 101, 116, 95, 107, 101, 121>>)
                   @@ ("encryption_key" :>
                      <<97, 100, 118, 97, 110, 99, 101, 100, 45, 101, 110, 99,
                        114, 121, 112, 116, 105, 111, 110, 45, 107, 101, 121,
                        45, 50, 53, 54, 45, 98, 105, 116>>)
                   @@ ("database_master_password" :>
                      <<117, 108, 116, 114, 97, 45, 115, 101, 99, 117, 114,
                        101, 45, 109, 97, 115, 116, 101, 114, 45, 100, 98, 45,
                        112, 97, 115, 115, 119, 111, 114, 100>>),
                   EmptyObj)
       IN  /\ arch' = [arch EXCEPT !.configs = Append(@, globalConfig),
                                   !.secrets = Append(@, secrets)]
           /\ made' = made \cup {"createConfiguration"}
           /\ UNCHANGED <<staging, wait>>
           /\ UNCHANGED <<bvars, dvars>>

\* name.includes(part), on strings
StrIncludes(name, part) ==
    \E i \in 1..(Len(name) - Len(part) + 1) :
        SubSeq(name, i, i + Len(part) - 1) = part

\* the three filters of deployWithStaging
Infrastructure(services) ==
    SelectSeq(services, LAMBDA service :
        \/ service.name \in {"user-db", "order-db", "payment-db",
                             "inventory-db", "redis", "rabbitmq"}
        \/ /\ StrIncludes(service.name, "-service")
           /\ ~StrIncludes(service.name, "user-service"))

CoreServices(services) ==
    SelectSeq(services, LAMBDA service :
        \/ service.name \in {"user-service", "payment-service",
                             "inventory-service"}
        \/ /\ StrIncludes(service.name, "-service")
           /\ \E name \in {"user", "payment", "inventory"} :
                  StrIncludes(service.name, name))

DependentServices(services) ==
    SelectSeq(services, LAMBDA service :
        \/ service.name \in {"order-service", "api-gateway", "frontend"}
        \/ /\ StrIncludes(service.name, "-service")
           /\ \E name \in {"order", "api-gateway", "frontend"} :
                  StrIncludes(service.name, name))

\* waitForServices(serviceNames, timeoutMs) up to its loop: startTime is read
WaitForServices(serviceNames, timeoutMs) ==
    [ pc           |-> "check",
      serviceNames |-> serviceNames,
      startTime    |-> clock,
      timeoutMs    |-> timeoutMs,
      log          |-> << >>,
      outcome      |-> Running ]

TryBlockThrowsMutant == Threw(<<"not ready">>)

\* how the try block of waitForServices completes: console.log and a promise
\* that a timer resolves do not throw, and it ends in `return true`
TryBlock == Returned(TRUE)

\* the timeouts of the direct calls of waitForServices
Timeouts == {0, 1, DefaultTimeoutMs}

\* deployWithStaging, lines 306-316: stage 1 is filtered and deployed
DeployWithStaging ==
    /\ staging.pc = "new"
    /\ wait.pc = "idle"
    /\ pc[1] = "idle"
    /\ LET infrastructure == Infrastructure(arch.services)
           batch == infrastructure \o arch.configs \o arch.secrets
       IN  /\ \E yaml \in {"resolved", "missing"} : Deploy(1, batch, yaml)
           /\ staging' = [staging EXCEPT
                  !.pc = "stage1",
                  !.submitted = Append(@, batch),
                  !.log = @ \o <<"Deploying microservices architecture...",
                                 "Stage 1: Deploying infrastructure...">>]
    /\ UNCHANGED <<arch, made, wait>>
    /\ UNCHANGED bvars

\* lines 318-325 and 354-355: stage 1's deploy has returned; on false the
\* call returns false, on true it calls waitForServices
AwaitServices ==
    /\ staging.pc = "stage1"
    /\ pc[1] = "done"
    /\ LET infraSuccess == outcome[1].value
       IN  IF ~infraSuccess
           THEN /\ staging' = [staging EXCEPT
                       !.pc = "done",
                       !.results = Append(@, infraSuccess),
                       !.log = Append(@, "Infrastructure deployment failed"),
                       !.outcome = Returned(FALSE)]
                /\ UNCHANGED wait
           ELSE /\ staging' = [staging EXCEPT
                       !.pc = "wait",
                       !.results = Append(@, infraSuccess),
                       !.log = Append(@, "Waiting for databases to be ready...")]
                /\ wait' = WaitForServices(
                               <<"user-db-service", "order-db-service",
                                 "payment-db-service", "inventory-db-service">>,
                               DefaultTimeoutMs)
    /\ UNCHANGED <<arch, made>>
    /\ UNCHANGED <<bvars, dvars>>

\* waitForServices called on its own, with a timeout
CallWaitForServices ==
    /\ staging.pc = "new"
    /\ wait.pc = "idle"
    /\ \E timeoutMs \in Timeouts :
           wait' = WaitForServices(<<"user-db-service">>, timeoutMs)
    /\ UNCHANGED <<arch, made, staging>>
    /\ UNCHANGED <<bvars, dvars>>

\* lines 357-361 and 373: the loop condition reads the clock; the body logs
\* and starts the timer, the exit throws
WaitCheck ==
    /\ wait.pc = "check"
    /\ IF clock - wait.startTime < wait.timeoutMs
       THEN wait' = [wait EXCEPT
                !.pc = "pause",
                !.log = Append(@, [ line  |-> "Checking readiness",
                                    names |-> wait.serviceNames ])]
       ELSE wait' = [wait EXCEPT
                !.pc = "done",
                !.outcome = Threw(<<"Timeout waiting for services to be ready">>)]
    /\ UNCHANGED <<arch, made, staging>>
    /\ UNCHANGED <<bvars, dvars>>

\* lines 361-370: the timer fires, on time or late, and the try block
\* completes: it returns true, or the catch block logs, pauses and the loop
\* goes round
WaitPause ==
    /\ wait.pc = "pause"
    /\ \E late \in 0..MaxLate :
           IF TryBlock.kind = "returned"
           THEN /\ clock' = clock + ReadyPauseMs + late
                /\ wait' = [wait EXCEPT
                       !.pc = "done",
                       !.log = Append(@, [line |-> "Services ready"]),
                       !.outcome = TryBlock]
           ELSE /\ clock' = clock + ReadyPauseMs + RetryPauseMs + late
                /\ wait' = [wait EXCEPT
                       !.pc = "check",
                       !.log = Append(@,
                                  [line |-> "Services not ready yet, waiting..."])]
    /\ UNCHANGED <<files, pc, required, args, allYAML, log, tempFile,
                   completion, outcome, effects>>
    /\ UNCHANGED <<arch, made, staging>>
    /\ UNCHANGED bvars

\* lines 325-334: the await of waitForServices ends; if it threw, the call
\* of deployWithStaging ends with that error, else stage 2 is filtered and
\* deployed
DeployCore ==
    /\ staging.pc = "wait"
    /\ wait.pc = "done"
    /\ IF wait.outcome.kind = "threw"
       THEN /\ staging' = [staging EXCEPT !.pc = "done",
                                          !.outcome = wait.outcome]
            /\ UNCHANGED dvars
       ELSE LET coreServices == CoreServices(arch.services)
            IN  /\ \E yaml \in {"resolved", "missing"} :
                       Deploy(1, coreServices, yaml)
                /\ staging' = [staging EXCEPT
                       !.pc = "stage2",
                       !.submitted = Append(@, coreServices),
                       !.log = Append(@, "Stage 2: Deploying core services...")]
    /\ UNCHANGED <<arch, made, wait>>
    /\ UNCHANGED bvars

DeployDependentUngatedMutant ==
    /\ staging.pc = "stage2"
    /\ pc[1] = "done"
    /\ LET coreSuccess == outcome[1].value
           dependentServices == DependentServices(arch.services)
       IN  /\ \E yaml \in {"resolved", "missing"} :
                  Deploy(1, dependentServices, yaml)
           /\ staging' = [staging EXCEPT
                  !.pc = "stage3",
                  !.results = Append(@, coreSuccess),
                  !.submitted = Append(@, dependentServices),
                  !.log = Append(@, "Stage 3: Deploying dependent services...")]
    /\ UNCHANGED <<arch, made, wait>>
    /\ UNCHANGED bvars

\* lines 336-348: stage 2's deploy has returned; on false the call returns
\* false, on true stage 3 is filtered and deployed
DeployDependent ==
    /\ staging.pc = "stage2"
    /\ pc[1] = "done"
    /\ LET coreSuccess == outcome[1].value
       IN  IF ~coreSuccess
           THEN /\ staging' = [staging EXCEPT
                       !.pc = "done",
                       !.results = Append(@, coreSuccess),
                       !.log = Append(@, "Core services deployment failed"),
                       !.outcome = Returned(FALSE)]
                /\ UNCHANGED dvars
           ELSE LET dependentServices == DependentServices(arch.services)
                IN  /\ \E yaml \in {"resolved", "missing"} :
                           Deploy(1, dependentServices, yaml)
                    /\ staging' = [staging EXCEPT
                           !.pc = "stage3",
                           !.results = Append(@, coreSuccess),
                           !.submitted = Append(@, dependentServices),
                           !.log = Append(@,
                                      "Stage 3: Deploying dependent services...")]
    /\ UNCHANGED <<arch, made, wait>>
    /\ UNCHANGED bvars

\* lines 348-350: stage 3's deploy has returned, and its result is returned
ReturnDependentSuccess ==
    /\ staging.pc = "stage3"
    /\ pc[1] = "done"
    /\ LET dependentSuccess == outcome[1].value
       IN  staging' = [staging EXCEPT
               !.pc = "done",
               !.results = Append(@, dependentSuccess),
               !.outcome = Returned(dependentSuccess)]
    /\ UNCHANGED <<arch, made, wait>>
    /\ UNCHANGED <<bvars, dvars>>

StagingNext ==
    \/ CreateFrontend \/ CreateApiGateway \/ CreateUserService
    \/ CreateOrderService \/ CreatePaymentService \/ CreateInventoryService
    \/ CreateDatabases \/ CreateSharedServices \/ CreateConfiguration
    \/ DeployWithStaging \/ AwaitServices \/ DeployCore \/ DeployDependent
    \/ ReturnDependentSuccess
    \/ CallWaitForServices \/ WaitCheck \/ WaitPause
    \/ ApplyWrite(1) \/ ApplyExec(1) \/ ApplyFinally(1)
    \/ Tick

SpecStaging == Init /\ [][StagingNext]_vars

(***************************************************************************)
(* Properties of deploy                                                    *)
(***************************************************************************)
\* the call's last argument is an options object with dryRun true
DryRunCall(p) ==
    /\ Len(args[p]) > 0
    /\ "dryRun" \in DOMAIN args[p][Len(args[p])]
    /\ args[p][Len(args[p])].dryRun = TRUE

\* the arguments before a last argument that carries dryRun
Passed(p) == SubSeq(args[p], 1, Len(args[p]) - 1)

\* the resources a process announced, in the order of the lines
Announced(p) == SelectSeq(log[p], LAMBDA l : l.line = "resource")

\* C1: a call of deploy whose last argument has dryRun true runs no external
\* process and creates, writes and deletes no file, visits every resource
\* passed exactly once, in order (toYAML called, kind and name announced),
\* and returns true when it returns.
C1_DryRunNoEffects ==
    \A p \in Procs :
        (pc[p] = "done" /\ DryRunCall(p)) =>
            /\ effects[p] = << >>
            /\ tempFile[p] = undefined
            /\ allYAML[p] = [i \in 1..Len(Passed(p)) |-> ToYAML(Passed(p)[i])]
            /\ Announced(p) = [i \in 1..Len(Passed(p)) |-> Announce(Passed(p)[i])]
            /\ outcome[p] # Returned(FALSE)
            /\ required[p] = "resolved" => outcome[p] = Returned(TRUE)

C1_Witness ==
    \E p \in Procs :
        /\ pc[p] = "done"
        /\ args[p] = <<PoolApp, PoolService, [dryRun |-> TRUE]>>
        /\ outcome[p] = Returned(TRUE)
        /\ Len(Announced(p)) = 2
        /\ effects[p] = << >>
        /\ files = EmptyObj

\* C2: in apply mode, when a call that wrote its transient file returns
\* (kubectl succeeded, kubectl failed, or a later step failed), the file is
\* not in the directory.
C2_TempFileRemoved ==
    [][\A p \in Procs :
          (pc[p] # "done" /\ pc'[p] = "done" /\ tempFile'[p] # undefined) =>
              tempFile'[p][1] \notin DOMAIN files']_vars

C2_Witness ==
    \E p \in Procs :
        /\ pc[p] = "done"
        /\ tempFile[p] # undefined
        /\ completion[p].kind = "threw"
        /\ outcome[p] = Returned(FALSE)
        /\ effects[p][Len(effects[p])] =
               [op |-> "unlinkSync", path |-> tempFile[p][1], failed |-> FALSE]
        /\ tempFile[p][1] \notin DOMAIN files

\* the exit status of the kubectl process a call ran
ExitStatus(p) == effects[p][2].status

\* C3: in apply mode deploy returns true exactly when kubectl exits with
\* status zero and false exactly when it exits non-zero; writing and
\* removing the transient file cannot change that result.
C3_ExitStatusDecides ==
    \A p \in Procs :
        (pc[p] = "done" /\ Len(effects[p]) >= 2) =>
            outcome[p] = Returned(ExitStatus(p) = 0)

\* the call reaches a require of js-yaml: every argument it visits is a
\* resource and it is a dry run or an apply
NeedsYaml(p) ==
    /\ \A i \in 1..Len(ActualResources(args[p])) :
           HasToYAML(ActualResources(args[p])[i])
    /\ DryRun(args[p]) \/ Apply(args[p])

\* C4: no exception escapes deploy: in dry-run and in apply mode, a missing
\* js-yaml, a missing kubectl and any other failure of the external process
\* are caught, logged, and reported as the return value false.
C4_FailuresReturnFalse ==
    \A p \in Procs :
        (pc[p] = "done" /\ NeedsYaml(p)) =>
            /\ outcome[p].kind = "returned"
            /\ required[p] = "missing" => outcome[p] = Returned(FALSE)
            /\ completion[p].kind = "threw" => outcome[p] = Returned(FALSE)

\* the resources among the arguments
ResourcesOf(p) == SelectSeq(args[p], HasToYAML)

\* a text holds exactly the documents of the resources, in order, with a
\* separator between consecutive documents
IsDocumentStream(text, resources) ==
    LET n == Len(resources)
    IN  /\ Len(text) = IF n = 0 THEN 0 ELSE 2 * n - 1
        /\ \A i \in 1..Len(text) :
               text[i] = IF i % 2 = 0 THEN Separator
                         ELSE Dump(ToYAML(resources[(i + 1) \div 2]))

\* the lines a dry run printed after its heading
Printed(p) ==
    SelectSeq(log[p], LAMBDA l : l.line \in {"---", "yaml"})

\* C5: the output of deploy for resources r1..rn (the file written in apply
\* mode, the documents printed by a dry run) holds exactly n documents, the
\* i-th the serialization of ri.toYAML(), in the order passed, separated by
\* the multi-document separator.
C5_DocumentsInOrder ==
    \A p \in Procs :
        /\ \A k \in 1..Len(effects[p]) :
               effects[p][k].op = "writeFileSync" =>
                   IsDocumentStream(effects[p][k].data, ResourcesOf(p))
        /\ (pc[p] = "done" /\ DryRunCall(p) /\ outcome[p] = Returned(TRUE)) =>
               /\ Len(Printed(p)) = 2 * Len(ResourcesOf(p))
               /\ \A i \in 1..Len(ResourcesOf(p)) :
                      /\ Printed(p)[2 * i - 1] = [line |-> "---"]
                      /\ Printed(p)[2 * i] =
                             [ line |-> "yaml",
                               text |-> Dump(ToYAML(ResourcesOf(p)[i])) ]

C5_Witness ==
    \E p \in Procs :
        /\ args[p] = <<PoolService, PoolApp>>
        /\ Len(effects[p]) = 1
        /\ effects[p][1].op = "writeFileSync"
        /\ effects[p][1].data = << Dump(ToYAML(PoolService)), Separator,
                                   Dump(ToYAML(PoolApp)) >>
        /\ files[tempFile[p][1]] = effects[p][1].data

\* two documents name the same entity: same kind, name and namespace
SameEntity(d, e) ==
    /\ d.kind = e.kind
    /\ d.metadata.name = e.metadata.name
    /\ d.metadata.namespace = e.metadata.namespace

\* C13: in the batch one call of deploy submits, batches made of serviceFor
\* results included, no two documents of the same kind share both
\* metadata.name and metadata.namespace.
C13_UniqueNames ==
    \A p \in Procs :
        \A i, j \in 1..Len(allYAML[p]) :
            i # j => ~SameEntity(allYAML[p][i], allYAML[p][j])

\* a call is using its transient file: it wrote it and has yet to delete it
Using(p) == pc[p] \in {"exec", "finally"}

\* C14: when apply-mode calls of deploy run concurrently, each transient
\* file is owned by one call from its creation to its deletion: no call
\* writes, applies or deletes a path that another call is using.
C14_ExclusiveFile ==
    \A p, q \in Procs :
        (p # q /\ Using(p) /\ Using(q)) => tempFile[p] # tempFile[q]

FailureLine(p) == log[p][Len(log[p])].line

\* C16: when an apply-mode call fails, the line logged names the class of
\* the failure: the js-yaml line exactly when js-yaml is missing, the
\* 'kubectl not found' line only when the kubectl binary was not found, and
\* the 'Deployment error' line when kubectl ran and exited non-zero.
C16_MessageNamesFailure ==
    \A p \in Procs :
        (pc[p] = "done" /\ outcome[p] = Returned(FALSE)) =>
            /\ FailureLine(p) = CatchLine(ModuleNotFound).line
                    <=> required[p] = "missing"
            /\ FailureLine(p) = CatchLine(<<"kubectl">>).line =>
                    (Len(effects[p]) >= 2 /\ ExitStatus(p) = 127)
            /\ (Len(effects[p]) >= 2 /\ ExitStatus(p) = 1) =>
                    FailureLine(p) = "Deployment error"

\* the call's last argument is an options object, not a resource
OptionsGiven(p) ==
    /\ Len(args[p]) > 0
    /\ ~HasToYAML(args[p][Len(args[p])])

\* C17: an options object passed last to deploy (one carrying dryRun, apply
\* or both) is recognised as the mode flag and not visited as a resource:
\* the call serializes exactly the arguments before it, and with apply false
\* (and no dry run) it makes no file system or process call and returns true.
C17_OptionsRecognised ==
    \A p \in Procs :
        (pc[p] # "idle" /\ OptionsGiven(p)) =>
            /\ allYAML[p] = [i \in 1..Len(Passed(p)) |-> ToYAML(Passed(p)[i])]
            /\ outcome[p] # Threw(NotAFunction)
            /\ (Get(args[p][Len(args[p])], "apply") = <<FALSE>> /\ ~DryRunCall(p)) =>
                   /\ pc[p] = "done"
                   /\ effects[p] = << >>
                   /\ outcome[p] = Returned(TRUE)

(***************************************************************************)
(* Properties of deployWithStaging and waitForServices                     *)
(***************************************************************************)
\* C18: in deployWithStaging the stages are submitted in order and gated on
\* success: stage 2 only after stage 1's deploy returned true and the wait
\* completed, stage 3 only after stage 2's deploy returned true; once a
\* stage's deploy returns false no later stage is submitted and the result
\* is false; the result is true only if all three deploys returned true.
C18_StagesGated ==
    LET submitted == staging.submitted
        results   == staging.results
    IN  /\ Len(submitted) <= 3
        /\ Len(results) <= Len(submitted)
        /\ Len(submitted) <= Len(results) + 1
        /\ Len(submitted) >= 2 =>
               /\ results[1] = TRUE
               /\ wait.pc = "done"
               /\ wait.outcome = Returned(TRUE)
        /\ Len(submitted) >= 3 => results[2] = TRUE
        /\ \A i \in 1..Len(results) :
               results[i] = FALSE =>
                   /\ Len(submitted) = i
                   /\ staging.pc = "done"
                   /\ staging.outcome = Returned(FALSE)
        /\ staging.outcome = Returned(TRUE) => results = <<TRUE, TRUE, TRUE>>
        /\ staging.pc = "done" =>
               \/ staging.outcome = Returned(results[Len(results)])
               \/ staging.outcome = wait.outcome

C18_Witness ==
    /\ made = DOMAIN BuildOrder
    /\ staging.pc = "done"
    /\ staging.outcome = Returned(TRUE)
    /\ Len(staging.submitted) = 3
    /\ staging.results = <<TRUE, TRUE, TRUE>>
    /\ wait.outcome = Returned(TRUE)

\* the workloads of each stage's group, and a group with its services
InfrastructureGroup == {"user-db", "order-db", "payment-db", "inventory-db",
                        "redis", "rabbitmq"}
CoreGroup           == {"user-service", "payment-service", "inventory-service"}
DependentGroup      == {"order-service", "api-gateway", "frontend"}

WithServices(group) == group \cup {name \o "-service" : name \in group}

\* the stage of a resource's group
StageOf(name) ==
    IF name \in WithServices(CoreGroup) THEN 2
    ELSE IF name \in WithServices(DependentGroup) THEN 3
    ELSE 1

\* the stages a resource was submitted in
StagesOf(resource) ==
    {k \in 1..Len(staging.submitted) :
        \E j \in 1..Len(staging.submitted[k]) :
            staging.submitted[k][j] = resource}

\* C19: when deployWithStaging has run its three stages over a fully built
\* architecture, every resource of the service list was submitted in exactly
\* one stage, the stage of its group: databases, cache and queue and their
\* services in stage 1, the user, payment and inventory services in stage 2,
\* order-service, api-gateway and frontend and their services in stage 3.
C19_OneStageEach ==
    (made = DOMAIN BuildOrder /\ Len(staging.submitted) = 3) =>
        \A i \in 1..Len(arch.services) :
            StagesOf(arch.services[i]) = {StageOf(arch.services[i].name)}

\* the lines waitForServices logs when it returns true
ReadyLog ==
    << [line |-> "Checking readiness", names |-> wait.serviceNames],
       [line |-> "Services ready"] >>

\* C20 as stated: waitForServices called with a positive timeout ends by
\* returning true after one pause, and never throws or retries.
C20_PositiveTimeoutReturnsTrue ==
    (wait.pc = "done" /\ wait.timeoutMs > 0) =>
        /\ wait.outcome = Returned(TRUE)
        /\ wait.log = ReadyLog

\* C20, amended: waitForServices ends in one of two ways. If less than
\* timeoutMs has passed between reading startTime and the first test of the
\* loop condition (always so when timeoutMs exceeds the time that can pass
\* there), it returns true after exactly one pause of 5000 ms; otherwise it
\* throws the Timeout error at once, without pausing. The retry branch is
\* never reached, and deployWithStaging goes on to stage 2 exactly when the
\* wait returned true.
C20_ReturnsTrueUnlessElapsed ==
    /\ \A i \in 1..Len(wait.log) :
           wait.log[i].line # "Services not ready yet, waiting..."
    /\ wait.pc = "done" =>
           \/ /\ wait.outcome = Returned(TRUE)
              /\ wait.log = ReadyLog
              /\ clock - wait.startTime >= ReadyPauseMs
              /\ clock - wait.startTime < ReadyPauseMs + RetryPauseMs
           \/ /\ wait.outcome = Threw(<<"Timeout waiting for services to be ready">>)
              /\ wait.log = << >>
              /\ clock - wait.startTime >= wait.timeoutMs
    /\ (wait.pc = "done" /\ wait.timeoutMs > MaxClock) =>
           wait.outcome = Returned(TRUE)
    /\ (staging.pc = "done" /\ staging.results = <<TRUE>>) =>
           wait.outcome.kind = "threw"
    /\ Len(staging.submitted) >= 2 => wait.outcome = Returned(TRUE)

C20_Witness ==
    /\ staging.pc = "stage2"
    /\ Len(staging.submitted) = 2
    /\ wait.pc = "done"
    /\ wait.timeoutMs = DefaultTimeoutMs
    /\ wait.outcome = Returned(TRUE)
    /\ wait.log = ReadyLog
    /\ clock >= ReadyPauseMs


\* the labels of the pods a workload document creates
PodLabels(d) == d.spec.template.metadata.labels

\* a label selector is satisfied by a set of labels
Satisfies(selector, labelSet) ==
    \A k \in DOMAIN selector :
        k \in DOMAIN labelSet /\ labelSet[k] = selector[k]

\* C21: in every Deployment and StatefulSet document the labels of
\* spec.selector.matchLabels are among the pod template's labels, with the
\* same values; and for every workload W and every options, the document of
\* serviceFor(W, options) has a selector that W's pod template labels
\* satisfy and is in W's namespace.
C21_SelectorConsistency ==
    /\ (doc # << >> /\ doc[2].kind \in {"Deployment", "StatefulSet"}) =>
           Satisfies(doc[2].spec.selector.matchLabels, PodLabels(doc[2]))
    /\ (call.fn = "serviceFor" /\ doc # << >>) =>
           LET W == ToYAML(call.deployment)
           IN  /\ Satisfies(doc[2].spec.selector, PodLabels(W))
               /\ doc[2].metadata.namespace = W.metadata.namespace


\* the calls that produce an autoscale policy: autoscaleFor, the constructor
\* behind hpa, and webApp
PolicyBuilders == {"autoscaleFor", "HorizontalPodAutoscaler", "webApp"}

\* C22: every autoscale policy document of autoscaleFor, hpa or webApp has
\* 1 <= spec.minReplicas <= spec.maxReplicas, whichever of minReplicas,
\* maxReplicas and replicas are given; in webApp's policy minReplicas is the
\* replica count of the application and maxReplicas is three times it.
C22_ReplicaBounds ==
    (/\ call.fn \in PolicyBuilders
     /\ doc # << >>
     /\ doc[2].kind = "HorizontalPodAutoscaler") =>
        LET policy == doc[2].spec
        IN  /\ 1 <= policy.minReplicas
            /\ policy.minReplicas <= policy.maxReplicas
            /\ call.fn = "webApp" =>
                   LET replicas == ToYAML(ret[1]).spec.replicas
                   IN  /\ policy.minReplicas = replicas
                       /\ policy.maxReplicas = 3 * replicas

=============================================================================
